---------------------------- MODULE Spec2Model ----------------------------
(***************************************************************************)
(* A model of mult_by_columns_library.py: the compilation of a regression  *)
(* table into a reverse-polish token stream (mult_by_columns) and the      *)
(* evaluation of that stream over one tile (raster_rpn_calculator_op).     *)
(*                                                                         *)
(* Python strings are sequences of one-character strings, so that split,   *)
(* startswith and re.match are computed and not assumed.  A float is an    *)
(* integer here: every coefficient, pixel value and exponent of the model  *)
(* is a small integer, which float32 and float64 hold exactly.             *)
(*                                                                         *)
(* Left to the libraries and not modelled: reading the table, the target   *)
(* bounding box and pixel size, the warping of the rasters and the cutting *)
(* of the aligned rasters into blocks.  A block is any tile of TilePixels  *)
(* pixels; the target nodata, float32's minimum in the code, is a number   *)
(* that no expression of the model evaluates to.                           *)
(***************************************************************************)
EXTENDS Integers, Sequences, FiniteSets, TLC

VARIABLES
    lasso_df,                   \* the rows of the table (pandas.read_csv)
    base_convolution_raster_id, \* parameter of mult_by_columns
    target_raster_id,           \* parameter of mult_by_columns
    data_dir,                   \* parameter: the directory's rasters
    zero_nodata_symbols,        \* parameter: None or a set of symbols
    conversion_factor,          \* parameter: None or a number
    target_nodata,              \* parameter
    pc,                         \* position in mult_by_columns
    rpn_stack,                  \* the token stream
    raster_id_list,             \* the distinct symbols, in slot order
    raster_id_to_info_map,      \* the dict's items, in insertion order
    missing_raster_path_list,   \* paths with no file
    error_log,                  \* the records LOGGER.error wrote
    task_graph,                 \* the tasks added with add_task
    raster_path_band_list,      \* the (path, band) / (value, 'raw') list
    zero_nodata_indexes,        \* the slot indices built at lines 283-286
    tile_before,                \* the arrays handed to the evaluator
    tile_after,                 \* the same arrays when the call has ended
    plan_after,                 \* the raw arguments when the call has ended
    call,                       \* how the last evaluator call ended
    n_calls                     \* evaluator calls so far

vars == <<lasso_df, base_convolution_raster_id, target_raster_id, data_dir,
          zero_nodata_symbols, conversion_factor, target_nodata, pc,
          rpn_stack, raster_id_list, raster_id_to_info_map,
          missing_raster_path_list, error_log, task_graph,
          raster_path_band_list, zero_nodata_indexes, tile_before,
          tile_after, plan_after, call, n_calls>>

---------------------------------------------------------------------------
(* Bounds of the model.                                                    *)

\* rows of a table
MaxRows == 2
\* pixels of a tile
TilePixels == 2
\* tokens of a hand-made stream given to the evaluator alone
MaxStream == 3

---------------------------------------------------------------------------
(* Python values.                                                          *)

\* None, and a value that is not None
None == [isnone |-> TRUE, val |-> 0]
Some(v) == [isnone |-> FALSE, val |-> v]

\* a token of the stream is a number or a str
Num(n) == [isstr |-> FALSE, num |-> n, str |-> <<>>]
Str(s) == [isstr |-> TRUE, num |-> 0, str |-> s]

INTERCEPT_COLUMN_ID == <<"i", "n", "t", "e", "r", "c", "e", "p", "t">>

\* the keys of OPERATOR_FN
OPERATOR_FN == {<<"+">>, <<"*">>, <<"^">>}

\* val in OPERATOR_FN
IsOperator(val) == val.isstr /\ val.str \in OPERATOR_FN

RECURSIVE Pow(_, _)
\* numpy.power for an integer exponent >= 0
Pow(a, k) == IF k <= 0 THEN 1 ELSE a * Pow(a, k - 1)

\* OPERATOR_FN[operator](operand_a, operand_b) on two scalars
ScalarOp(operator, a, b) ==
    CASE operator = <<"+">> -> a + b
      [] operator = <<"*">> -> a * b
      [] operator = <<"^">> -> Pow(a, b)

---------------------------------------------------------------------------
(* str methods and re.match.                                               *)

\* product.startswith(prefix)
StartsWith(s, prefix) ==
    /\ Len(prefix) <= Len(s)
    /\ SubSeq(s, 1, Len(prefix)) = prefix

\* the first position of character d in s at or after i, or 0
RECURSIVE Find(_, _, _)
Find(s, d, i) ==
    IF i > Len(s) THEN 0
    ELSE IF s[i] = d THEN i
    ELSE Find(s, d, i + 1)

\* s.split(d) for a one-character delimiter d
RECURSIVE Split(_, _)
Split(s, d) ==
    LET at == Find(s, d, 1)
    IN  IF at = 0 THEN <<s>>
        ELSE <<SubSeq(s, 1, at - 1)>> \o Split(SubSeq(s, at + 1, Len(s)), d)

DigitValue == [ch \in {"0", "1", "2", "3", "4", "5", "6", "7", "8", "9"} |->
    CASE ch = "0" -> 0 [] ch = "1" -> 1 [] ch = "2" -> 2 [] ch = "3" -> 3
      [] ch = "4" -> 4 [] ch = "5" -> 5 [] ch = "6" -> 6 [] ch = "7" -> 7
      [] ch = "8" -> 8 [] ch = "9" -> 9]

\* int(s) for a str of decimal digits
RECURSIVE IntOf(_)
IntOf(s) ==
    IF Len(s) = 0 THEN 0
    ELSE 10 * IntOf(SubSeq(s, 1, Len(s) - 1)) + DigitValue[s[Len(s)]]

\* The pattern fr'{base}(.*)' compiled: the items of base.  Over the
\* characters of the model's names the only regular-expression operator is
\* "+", one or more of the character before it; every other character
\* stands for itself.  A "+" with nothing before it is re.error.
RECURSIVE RegexItems(_)
RegexItems(pattern) ==
    IF Len(pattern) = 0 THEN [ok |-> TRUE, items |-> <<>>]
    ELSE IF pattern[1] = "+" THEN [ok |-> FALSE, items |-> <<>>]
    ELSE LET plus == Len(pattern) >= 2 /\ pattern[2] = "+"
             used == IF plus THEN 2 ELSE 1
             rest == RegexItems(SubSeq(pattern, used + 1, Len(pattern)))
         IN  [ok |-> rest.ok,
              items |-> <<[ch |-> pattern[1], plus |-> plus]>> \o rest.items]

\* how many times character ch repeats in s from position j
RECURSIVE RunLength(_, _, _)
RunLength(s, ch, j) ==
    IF j <= Len(s) /\ s[j] = ch THEN 1 + RunLength(s, ch, j + 1) ELSE 0

\* The backtracking matcher: the position after the match of items that
\* starts at position j of s, or -1.  A repeat is greedy: it tries its
\* longest run first and gives back one character at a time.
RECURSIVE MatchItems(_, _, _), MatchRepeat(_, _, _, _)
MatchItems(items, s, j) ==
    IF Len(items) = 0 THEN j
    ELSE LET item == items[1]
             rest == Tail(items)
         IN  IF item.plus
             THEN MatchRepeat(rest, s, j, RunLength(s, item.ch, j))
             ELSE IF j <= Len(s) /\ s[j] = item.ch
                  THEN MatchItems(rest, s, j + 1)
                  ELSE -1
MatchRepeat(rest, s, j, k) ==
    IF k < 1 THEN -1
    ELSE LET end == MatchItems(rest, s, j + k)
         IN  IF end # -1 THEN end ELSE MatchRepeat(rest, s, j, k - 1)

\* re.match(fr'{base}(.*)', product).group(1): ok is FALSE when the pattern
\* does not compile or when the match is None (match.group then raises).
\* The group (.*) takes everything after the match of base.
ReMatchGroup1(base, product) ==
    LET compiled == RegexItems(base)
        end == IF compiled.ok THEN MatchItems(compiled.items, product, 1)
               ELSE -1
    IN  IF end = -1 THEN [ok |-> FALSE, str |-> <<>>]
        ELSE [ok |-> TRUE, str |-> SubSeq(product, end, Len(product))]

---------------------------------------------------------------------------
(* mult_by_columns, lines 144-187: the token stream of the table.          *)

\* lines 162-169: a product that starts with the base name has the match
\* of the base pattern replaced by the target name
SubstituteBase(product, base, target) ==
    IF StartsWith(product, base)
    THEN LET match == ReMatchGroup1(base, product)
         IN  [ok |-> match.ok, str |-> target \o match.str]
    ELSE [ok |-> TRUE, str |-> product]

\* rpn_stack.extend(product.split('^')) followed by
\* rpn_stack[-1] = int(rpn_stack[-1])
ExponentTokens(product) ==
    LET parts == Split(product, "^")
    IN  [i \in 1..Len(parts) |->
            IF i = Len(parts) THEN Num(IntOf(parts[i])) ELSE Str(parts[i])]

\* lines 171-181: the tokens of one product, its '*' included
ProductTokens(product) ==
    IF Find(product, "^", 1) # 0
    THEN ExponentTokens(product) \o <<Str(<<"^">>)>> \o <<Str(<<"*">>)>>
    ELSE <<Str(product)>> \o <<Str(<<"*">>)>>

\* lines 161-181: the loop over product_list
RECURSIVE ProductListTokens(_, _, _)
ProductListTokens(product_list, base, target) ==
    IF Len(product_list) = 0 THEN [ok |-> TRUE, tokens |-> <<>>]
    ELSE LET product == SubstituteBase(product_list[1], base, target)
             rest == ProductListTokens(Tail(product_list), base, target)
         IN  IF ~product.ok THEN [ok |-> FALSE, tokens |-> <<>>]
             ELSE [ok |-> rest.ok,
                   tokens |-> ProductTokens(product.str) \o rest.tokens]

\* lines 147-181: the tokens one row appends
RowTokens(row, base, target) ==
    IF row.header = INTERCEPT_COLUMN_ID
    THEN [ok |-> TRUE, tokens |-> <<Num(row.coefficient)>>]
    ELSE LET products ==
                 ProductListTokens(Split(row.header, "*"), base, target)
         IN  [ok |-> products.ok,
              tokens |-> <<Num(row.coefficient)>> \o products.tokens]

\* a '+' after every row, the first one too
AddTokensAlways(first_term) == <<Str(<<"+">>)>>

\* lines 184-187: what follows a row's tokens
AddTokens(first_term) == IF first_term THEN <<>> ELSE <<Str(<<"+">>)>>

\* lines 144-187: the loop over the rows, from row i on
RECURSIVE IterRows(_, _, _, _, _, _)
IterRows(rows, i, stack, first_term, base, target) ==
    IF i > Len(rows) THEN [ok |-> TRUE, stack |-> stack]
    ELSE LET row == RowTokens(rows[i], base, target)
         IN  IF ~row.ok THEN [ok |-> FALSE, stack |-> stack]
             ELSE IterRows(rows, i + 1,
                           stack \o row.tokens \o AddTokens(first_term),
                           FALSE, base, target)

BuildRpnStack(rows, base, target) ==
    IterRows(rows, 1, <<>>, TRUE, base, target)

\* the str members of set(rpn_stack), the operators not taken out
SymbolSetWithOperators(stack) ==
    {stack[i].str : i \in {j \in 1..Len(stack) : stack[j].isstr}}

\* lines 192-194: the members of set(rpn_stack) - set(OPERATOR_FN) that
\* are no number
SymbolSet(stack) ==
    {stack[i].str : i \in {j \in 1..Len(stack) :
                              stack[j].isstr /\ ~IsOperator(stack[j])}}

\* the orders in which a list comprehension can meet the members of a set
\* of str: a set's iteration order follows the hashes of its members, which
\* differ from one interpreter run to the next
IterationOrders(S) ==
    {order \in [1..Cardinality(S) -> S] :
        \A i, j \in 1..Cardinality(S) : i # j => order[i] # order[j]}

\* os.path.join(data_dir, f'{raster_id}.tif')
RasterPath(dir, raster_id) ==
    [dir |-> dir.name, file |-> raster_id \o <<".", "t", "i", "f">>]

\* a loop that stops at the first missing raster (break for continue)
RECURSIVE ResolveFromFirst(_, _, _, _, _)
ResolveFromFirst(id_list, i, dir, info, missing) ==
    IF i >= Len(id_list) THEN [info |-> info, missing |-> missing]
    ELSE LET raster_id == id_list[i + 1]
             raster_path == RasterPath(dir, raster_id)
         IN  IF raster_id \notin dir.rasters
             THEN [info |-> info, missing |-> Append(missing, raster_path)]
             ELSE ResolveFromFirst(id_list, i + 1, dir,
                                   Append(info, [id |-> raster_id,
                                                 path |-> raster_path,
                                                 nodata |-> dir.nodata[raster_id],
                                                 index |-> i]),
                                   missing)

\* lines 203-217: the loop over enumerate(raster_id_list), from index i on
\* (indices are 0-based, as in the code)
RECURSIVE ResolveFrom(_, _, _, _, _)
ResolveFrom(id_list, i, dir, info, missing) ==
    IF i >= Len(id_list) THEN [info |-> info, missing |-> missing]
    ELSE LET raster_id == id_list[i + 1]
             raster_path == RasterPath(dir, raster_id)
         IN  IF raster_id \notin dir.rasters
             THEN ResolveFrom(id_list, i + 1, dir, info,
                              Append(missing, raster_path))
             ELSE ResolveFrom(id_list, i + 1, dir,
                              Append(info, [id |-> raster_id,
                                            path |-> raster_path,
                                            nodata |-> dir.nodata[raster_id],
                                            index |-> i]),
                              missing)

---------------------------------------------------------------------------
(* raster_rpn_calculator_op.  args_list is given in its parts: the arrays  *)
(* and their nodata values (slot i at positions 2i and 2i+1 of args_list,  *)
(* slots 0-based as in the code, sequences 1-based here), then the five    *)
(* raw values.  An array is a function from 1..pixels to numbers.          *)

\* numpy.isclose(a, b) with its default rtol = 1e-05 and atol = 1e-08:
\* |a - b| <= atol + rtol * |b|, both sides scaled by 10^8
IsClose(a, b) ==
    LET Abs(x) == IF x < 0 THEN -x ELSE x
    IN  100000000 * Abs(a - b) <= 1 + 1000 * Abs(b)

\* info_dict[val]: the dict's items that have key val
InfoItems(info_dict, val) ==
    {i \in 1..Len(info_dict) : info_dict[i].id = val}

\* a mask that a single slot without nodata keeps valid (|= for &=)
ValidMaskAny(arrays, nodatas, zero_indexes, pixels) ==
    [p \in pixels |->
        \E slot \in 1..Len(arrays) :
            (~nodatas[slot].isnone /\ (slot - 1) \notin zero_indexes)
                => ~IsClose(arrays[slot][p], nodatas[slot].val)]

\* lines 67-73: the mask of the pixels at which every slot that has a
\* nodata value and is not zero-on-nodata differs from its nodata value
ValidMask(arrays, nodatas, zero_indexes, pixels) ==
    [p \in pixels |->
        \A slot \in 1..Len(arrays) :
            (~nodatas[slot].isnone /\ (slot - 1) \notin zero_indexes)
                => ~IsClose(arrays[slot][p], nodatas[slot].val)]

\* array[valid_mask]: the values at the valid pixels, in pixel order
RECURSIVE MaskedFrom(_, _, _, _)
MaskedFrom(array, valid_mask, p, last) ==
    IF p > last THEN <<>>
    ELSE (IF valid_mask[p] THEN <<array[p]>> ELSE <<>>)
         \o MaskedFrom(array, valid_mask, p + 1, last)

\* a value of accumulator_stack: a scalar or a one-dimensional array
Scalar(x) == [isarr |-> FALSE, sc |-> x, ar |-> <<>>]
Array(a) == [isarr |-> TRUE, sc |-> 0, ar |-> a]

\* line 83: the numpy function of the operator, broadcasting a scalar
ApplyOperator(operator, operand_a, operand_b) ==
    IF ~operand_a.isarr /\ ~operand_b.isarr
    THEN Scalar(ScalarOp(operator, operand_a.sc, operand_b.sc))
    ELSE LET len == IF operand_a.isarr THEN Len(operand_a.ar)
                    ELSE Len(operand_b.ar)
             a(i) == IF operand_a.isarr THEN operand_a.ar[i] ELSE operand_a.sc
             b(i) == IF operand_b.isarr THEN operand_b.ar[i] ELSE operand_b.sc
         IN  Array([i \in 1..len |-> ScalarOp(operator, a(i), b(i))])

\* a substitution that writes nothing
ZeroNodataKept(array, nodata_value) == array

\* lines 89-91: the slot's array with 0.0 written where it is close to the
\* slot's nodata value
ZeroNodata(array, nodata_value) ==
    [p \in DOMAIN array |->
        IF IsClose(array[p], nodata_value) THEN 0 ELSE array[p]]

\* lines 86-92: a str token that is no operator.  The array of args_list is
\* written in place, so the arrays after the step are part of the outcome.
PushSymbol(val, acc, arrays, nodatas, info_dict, zero_indexes, valid_mask) ==
    LET items == InfoItems(info_dict, val)
    IN  IF items = {}
        THEN [fault |-> "KeyError", acc |-> acc, arrays |-> arrays]
        ELSE LET arg_index == info_dict[CHOOSE i \in items : TRUE].index
                 slot == arg_index + 1
                 zeroed == arg_index \in zero_indexes
             IN  IF zeroed /\ nodatas[slot].isnone
                 THEN \* numpy.isclose(array, None)
                      [fault |-> "TypeError", acc |-> acc, arrays |-> arrays]
                 ELSE LET written ==
                              IF zeroed
                              THEN [arrays EXCEPT ![slot] =
                                       ZeroNodata(@, nodatas[slot].val)]
                              ELSE arrays
                          pixels == Len(valid_mask)
                      IN  [fault |-> "",
                           acc |-> Append(acc,
                               Array(MaskedFrom(written[slot], valid_mask,
                                                1, pixels))),
                           arrays |-> written]

\* lines 77-94: the loop over the stream, from token i on
RECURSIVE ProcessRpn(_, _, _, _, _, _, _, _)
ProcessRpn(stack, i, acc, arrays, nodatas, info_dict, zero_indexes, valid_mask) ==
    IF i > Len(stack)
    THEN [fault |-> "", acc |-> acc, arrays |-> arrays, next |-> i]
    ELSE LET val == stack[i]
         IN  IF IsOperator(val)
             THEN IF Len(acc) < 2
                  THEN \* pop from an empty list
                       [fault |-> "IndexError", acc |-> acc,
                        arrays |-> arrays, next |-> i + 1]
                  ELSE LET operand_b == acc[Len(acc)]
                           operand_a == acc[Len(acc) - 1]
                       IN  ProcessRpn(stack, i + 1,
                               Append(SubSeq(acc, 1, Len(acc) - 2),
                                      ApplyOperator(val.str, operand_a,
                                                    operand_b)),
                               arrays, nodatas, info_dict, zero_indexes,
                               valid_mask)
             ELSE IF val.isstr
             THEN LET pushed == PushSymbol(val.str, acc, arrays, nodatas,
                                           info_dict, zero_indexes,
                                           valid_mask)
                  IN  IF pushed.fault # ""
                      THEN [fault |-> pushed.fault, acc |-> acc,
                            arrays |-> arrays, next |-> i + 1]
                      ELSE ProcessRpn(stack, i + 1, pushed.acc,
                                      pushed.arrays, nodatas, info_dict,
                                      zero_indexes, valid_mask)
             ELSE ProcessRpn(stack, i + 1, Append(acc, Scalar(val.num)),
                             arrays, nodatas, info_dict, zero_indexes,
                             valid_mask)

\* lines 64-65
FactorOf(factor) == IF factor.isnone THEN 1 ELSE factor.val

\* a conversion factor applied twice
WriteResultTwice(value, factor, valid_mask, target) ==
    [p \in DOMAIN valid_mask |->
        IF ~valid_mask[p] THEN target
        ELSE IF value.isarr
        THEN value.ar[Cardinality({q \in 1..p : valid_mask[q]})]
                 * factor * factor
        ELSE value.sc * factor * factor]

\* line 96: result[valid_mask] = value * conversion_factor, on a result
\* that holds target nodata everywhere
WriteResult(value, factor, valid_mask, target) ==
    LET rank == [p \in DOMAIN valid_mask |->
                    Cardinality({q \in 1..p : valid_mask[q]})]
    IN  [p \in DOMAIN valid_mask |->
            IF ~valid_mask[p] THEN target
            ELSE IF value.isarr THEN value.ar[rank[p]] * factor
            ELSE value.sc * factor]

\* a call that returns the first value of the stack and looks no further
FinishCallUnchecked(acc, factor, valid_mask, target) ==
    IF Len(acc) = 0
    THEN [fault |-> "IndexError", returned |-> FALSE, result |-> <<>>]
    ELSE [fault |-> "", returned |-> TRUE,
          result |-> WriteResult(acc[1], factor, valid_mask, target)]

\* lines 96-100: what the call does with the stack once the stream is
\* consumed
FinishCall(acc, factor, valid_mask, target) ==
    IF Len(acc) = 0
    THEN \* accumulator_stack.pop(0) on an empty list
         [fault |-> "IndexError", returned |-> FALSE, result |-> <<>>]
    ELSE IF Len(acc) > 1
    THEN [fault |-> "RuntimeError", returned |-> FALSE, result |-> <<>>]
    ELSE [fault |-> "", returned |-> TRUE,
          result |-> WriteResult(acc[1], factor, valid_mask, target)]

\* rpn_stack = args_list[n+1]: the loop pops from the caller's list
SharesStream == FALSE

\* line 59: rpn_stack = list(args_list[n+1]) is a list of its own, so the
\* loop's pop(0) leaves the caller's list alone
CopiesStream == TRUE

\* the caller's token list once the loop has popped the tokens before next
CallerStream(stack, next) ==
    IF CopiesStream THEN stack ELSE SubSeq(stack, next, Len(stack))

\* The whole call.  Its outcome: the fault it raised ("" when it returned),
\* the array it returned, the caller's arrays and the raw arguments as the
\* call left them, and the number of values on accumulator_stack when the
\* stream was consumed (-1 when the loop did not get there).  With no
\* array at all args_list[0] is the target nodata, which has no pixels to
\* index (lines 57-58).
raster_rpn_calculator_op(arrays, nodatas, target, stack, info_dict, zero_indexes, factor) ==
    IF Len(arrays) = 0
    THEN [fault |-> "NoArray", returned |-> FALSE, result |-> <<>>,
          arrays |-> arrays, left |-> -1,
          plan |-> [rpn_stack |-> stack, info_dict |-> info_dict,
                    zero_nodata_indexes |-> zero_indexes]]
    ELSE LET pixels == DOMAIN arrays[1]
             valid_mask == ValidMask(arrays, nodatas, zero_indexes, pixels)
             run == ProcessRpn(stack, 1, <<>>, arrays, nodatas, info_dict,
                               zero_indexes, valid_mask)
             end == FinishCall(run.acc, FactorOf(factor), valid_mask,
                               target)
             plan == [rpn_stack |-> CallerStream(stack, run.next),
                      info_dict |-> info_dict,
                      zero_nodata_indexes |-> zero_indexes]
         IN  IF run.fault # ""
             THEN [fault |-> run.fault, returned |-> FALSE,
                   result |-> <<>>, arrays |-> run.arrays, left |-> -1,
                   plan |-> plan]
             ELSE [fault |-> end.fault, returned |-> end.returned,
                   result |-> end.result, arrays |-> run.arrays,
                   left |-> Len(run.acc), plan |-> plan]

---------------------------------------------------------------------------
(* The inputs of the model.                                                *)

\* the rows a table is made of: (header, coefficient)
Row(header, coefficient) == [header |-> header, coefficient |-> coefficient]

Rows ==
    { Row(INTERCEPT_COLUMN_ID, 3),
      Row(<<"a">>, 2),
      Row(<<"a", "*", "c", "x", "^", "2">>, 1),
      Row(<<"c", "x">>, 2) }

\* the tables: every sequence of 1..MaxRows rows
Tables == UNION {[1..n -> Rows] : n \in 1..MaxRows}

BaseIds == {<<"c">>, <<"x">>}
TargetIds == {<<"t">>}

NoneSet == [isnone |-> TRUE, val |-> {}]

\* a data directory: its name, the raster ids that have a .tif file in it
\* and the nodata value of each file's first band
RasterIds == {<<"a">>, <<"t", "x">>, <<"c", "x">>}
FullDir ==
    [name |-> "full",
     rasters |-> RasterIds,
     nodata |-> [id \in RasterIds |->
                    IF id = <<"t", "x">> THEN None ELSE Some(-1)]]
PartDir ==
    [name |-> "part",
     rasters |-> {<<"a">>},
     nodata |-> [id \in {<<"a">>} |-> Some(-1)]]
EmptyDir ==
    [name |-> "empty",
     rasters |-> {},
     nodata |-> [id \in {} |-> None]]
DataDirs == {FullDir, PartDir, EmptyDir}

ZeroNodataSymbols ==
    {NoneSet, Some({}), Some({<<"a">>}), Some({<<"t", "x">>, <<"c", "x">>})}
ConversionFactors == {None, Some(10)}
TargetNodatas == {-99}
PixelValues == {-1, 2}

\* the tiles of n slots: one array of TilePixels pixels per slot
Tiles(n) == [1..n -> [1..TilePixels -> PixelValues]]

\* the call variable before any call
NoCall ==
    [fault |-> "", returned |-> FALSE, result |-> <<>>, left |-> -1]
NoPlan == [rpn_stack |-> <<>>, info_dict |-> <<>>, zero_nodata_indexes |-> {}]

---------------------------------------------------------------------------
(* mult_by_columns as a state machine.                                     *)

Init ==
    /\ lasso_df \in Tables
    /\ base_convolution_raster_id \in BaseIds
    /\ target_raster_id \in TargetIds
    /\ data_dir \in DataDirs
    /\ zero_nodata_symbols \in ZeroNodataSymbols
    /\ conversion_factor \in ConversionFactors
    /\ target_nodata \in TargetNodatas
    /\ pc = "start"
    /\ rpn_stack = <<>>
    /\ raster_id_list = <<>>
    /\ raster_id_to_info_map = <<>>
    /\ missing_raster_path_list = <<>>
    /\ error_log = <<>>
    /\ task_graph = <<>>
    /\ raster_path_band_list = <<>>
    /\ zero_nodata_indexes = {}
    /\ tile_before = <<>>
    /\ tile_after = <<>>
    /\ plan_after = NoPlan
    /\ call = NoCall
    /\ n_calls = 0

params == <<lasso_df, base_convolution_raster_id, target_raster_id,
            data_dir, zero_nodata_symbols, conversion_factor,
            target_nodata>>
evaluation == <<tile_before, tile_after, plan_after, call, n_calls>>

\* lines 144-187
ParseTable ==
    /\ pc = "start"
    /\ LET built == BuildRpnStack(lasso_df, base_convolution_raster_id,
                                  target_raster_id)
       IN  /\ rpn_stack' = built.stack
           /\ pc' = IF built.ok THEN "parsed" ELSE "fault"
    /\ UNCHANGED <<params, evaluation, raster_id_list,
                   raster_id_to_info_map, missing_raster_path_list,
                   error_log, task_graph, raster_path_band_list,
                   zero_nodata_indexes>>

\* lines 192-194
DiscoverSymbols ==
    /\ pc = "parsed"
    /\ raster_id_list' \in IterationOrders(SymbolSet(rpn_stack))
    /\ pc' = "discovered"
    /\ UNCHANGED <<params, evaluation, rpn_stack, raster_id_to_info_map,
                   missing_raster_path_list, error_log, task_graph,
                   raster_path_band_list, zero_nodata_indexes>>

\* lines 199-225: sys.exit(-1) when a raster is missing
ResolveRasters ==
    /\ pc = "discovered"
    /\ LET found == ResolveFrom(raster_id_list, 0, data_dir, <<>>, <<>>)
       IN  /\ raster_id_to_info_map' = found.info
           /\ missing_raster_path_list' = found.missing
           /\ IF found.missing # <<>>
              THEN /\ error_log' = Append(error_log, found.missing)
                   /\ pc' = "exit"
              ELSE /\ error_log' = error_log
                   /\ pc' = "resolved"
    /\ UNCHANGED <<params, evaluation, rpn_stack, raster_id_list,
                   task_graph, raster_path_band_list, zero_nodata_indexes>>

\* lines 251-267: one warp_raster task per key of raster_id_to_info_map,
\* in the dict's order
AlignTasks(info) == [i \in 1..Len(info) |-> info[i].path]

\* lines 273-277: the (aligned path, 1), (nodata, 'raw') pairs, one per
\* member of raster_id_list; index is the 0-based position in the list
BandPairs(id_list, info) ==
    [k \in 1..Len(id_list) |->
        LET item == info[CHOOSE i \in InfoItems(info, id_list[k]) : TRUE]
        IN  [id |-> id_list[k], nodata |-> item.nodata,
             index_matches |-> (k - 1 = item.index)]]

\* lines 251-281
AlignRasters ==
    /\ pc = "resolved"
    /\ task_graph' = task_graph \o AlignTasks(raster_id_to_info_map)
    /\ LET pairs == BandPairs(raster_id_list, raster_id_to_info_map)
       IN  /\ raster_path_band_list' = pairs
           /\ pc' = IF \A k \in 1..Len(pairs) : pairs[k].index_matches
                    THEN "aligned" ELSE "fault"
    /\ UNCHANGED <<params, evaluation, rpn_stack, raster_id_list,
                   raster_id_to_info_map, missing_raster_path_list,
                   error_log, zero_nodata_indexes>>

\* lines 283-286: the set comprehension over zero_nodata_symbols
ZeroNodataIndexes(symbols, info) ==
    {info[i].index : i \in {j \in 1..Len(info) : info[j].id \in symbols}}

\* lines 283-292: iterating None raises TypeError
BuildZeroNodataIndexes ==
    /\ pc = "aligned"
    /\ IF zero_nodata_symbols.isnone
       THEN /\ pc' = "fault"
            /\ zero_nodata_indexes' = zero_nodata_indexes
       ELSE /\ pc' = "ready"
            /\ zero_nodata_indexes' =
                   ZeroNodataIndexes(zero_nodata_symbols.val,
                                     raster_id_to_info_map)
    /\ UNCHANGED <<params, evaluation, rpn_stack, raster_id_list,
                   raster_id_to_info_map, missing_raster_path_list,
                   error_log, task_graph, raster_path_band_list>>

\* one call of the evaluator on the arrays of one tile, and what it leaves
Evaluate(tile) ==
    LET nodatas == [k \in 1..Len(raster_path_band_list) |->
                       raster_path_band_list[k].nodata]
    IN  \E out \in {raster_rpn_calculator_op(tile, nodatas, target_nodata,
                         rpn_stack, raster_id_to_info_map,
                         zero_nodata_indexes, conversion_factor)} :
            /\ tile_before' = tile
            /\ tile_after' = out.arrays
            /\ plan_after' = out.plan
            /\ call' = [fault |-> out.fault, returned |-> out.returned,
                        result |-> out.result, left |-> out.left]
            /\ n_calls' = 1

\* lines 296-301: raster_calculator calls the evaluator once per block of
\* the aligned rasters; an exception of the evaluator ends the run
EvaluateTile ==
    /\ pc = "ready"
    /\ \E tile \in Tiles(Len(raster_path_band_list)) : Evaluate(tile)
    /\ pc' = IF call'.fault = "" THEN "evaluated" ELSE "fault"
    /\ UNCHANGED <<params, rpn_stack, raster_id_list,
                   raster_id_to_info_map, missing_raster_path_list,
                   error_log, task_graph, raster_path_band_list,
                   zero_nodata_indexes>>

\* raster_calculator goes on to the next block: the arrays of the last
\* one and the array the evaluator returned for it are dropped
NextBlock ==
    /\ pc = "evaluated"
    /\ pc' = "ready"
    /\ tile_before' = <<>>
    /\ tile_after' = <<>>
    /\ plan_after' = NoPlan
    /\ call' = NoCall
    /\ UNCHANGED <<params, n_calls, rpn_stack, raster_id_list,
                   raster_id_to_info_map, missing_raster_path_list,
                   error_log, task_graph, raster_path_band_list,
                   zero_nodata_indexes>>

\* line 302
Finish ==
    /\ pc = "ready"
    /\ n_calls > 0
    /\ pc' = "done"
    /\ UNCHANGED <<params, evaluation, rpn_stack, raster_id_list,
                   raster_id_to_info_map, missing_raster_path_list,
                   error_log, task_graph, raster_path_band_list,
                   zero_nodata_indexes>>

Next ==
    \/ ParseTable
    \/ DiscoverSymbols
    \/ ResolveRasters
    \/ AlignRasters
    \/ BuildZeroNodataIndexes
    \/ EvaluateTile
    \/ NextBlock
    \/ Finish

Spec == Init /\ [][Next]_vars

---------------------------------------------------------------------------
(* The evaluator alone, called on a hand-made stream over one slot, "a".   *)

StreamTokens ==
    {Num(2), Str(<<"a">>), Str(<<"q">>), Str(<<"+">>), Str(<<"*">>)}
Streams == UNION {[1..n -> StreamTokens] : n \in 0..MaxStream}

OneSlotInfo ==
    <<[id |-> <<"a">>, path |-> RasterPath(FullDir, <<"a">>),
       nodata |-> Some(-1), index |-> 0]>>

InitOp ==
    /\ lasso_df = <<>>
    /\ base_convolution_raster_id = <<>>
    /\ target_raster_id = <<>>
    /\ data_dir = FullDir
    /\ zero_nodata_symbols = Some({})
    /\ conversion_factor \in ConversionFactors
    /\ target_nodata \in TargetNodatas
    /\ pc = "ready"
    /\ rpn_stack \in Streams
    /\ raster_id_list = <<<<"a">>>>
    /\ raster_id_to_info_map = OneSlotInfo
    /\ missing_raster_path_list = <<>>
    /\ error_log = <<>>
    /\ task_graph = <<>>
    /\ raster_path_band_list = BandPairs(<<<<"a">>>>, OneSlotInfo)
    /\ zero_nodata_indexes \in {{}, {0}}
    /\ tile_before = <<>>
    /\ tile_after = <<>>
    /\ plan_after = NoPlan
    /\ call = NoCall
    /\ n_calls = 0

NextOp ==
    \/ EvaluateTile
    \/ NextBlock

SpecOp == InitOp /\ [][NextOp]_vars

---------------------------------------------------------------------------
(* The table parser alone, on one-row tables whose header is one factor.   *)

\* characters of a factor
MaxName == 3
NameChars == {"c", "x", "+"}
Names == UNION {[1..n -> NameChars] : n \in 1..MaxName}
NameBaseIds == {<<"c">>, <<"c", "x">>, <<"c", "+">>, <<"x">>}
NameTargetIds == {<<"t">>, <<"c", "t">>}

InitNames ==
    /\ lasso_df \in {<<Row(name, 1)>> : name \in Names}
    /\ base_convolution_raster_id \in NameBaseIds
    /\ target_raster_id \in NameTargetIds
    /\ data_dir = EmptyDir
    /\ zero_nodata_symbols = Some({})
    /\ conversion_factor = None
    /\ target_nodata \in TargetNodatas
    /\ pc = "start"
    /\ rpn_stack = <<>>
    /\ raster_id_list = <<>>
    /\ raster_id_to_info_map = <<>>
    /\ missing_raster_path_list = <<>>
    /\ error_log = <<>>
    /\ task_graph = <<>>
    /\ raster_path_band_list = <<>>
    /\ zero_nodata_indexes = {}
    /\ tile_before = <<>>
    /\ tile_after = <<>>
    /\ plan_after = NoPlan
    /\ call = NoCall
    /\ n_calls = 0

NextNames ==
    \/ ParseTable
    \/ DiscoverSymbols

SpecNames == InitNames /\ [][NextNames]_vars

---------------------------------------------------------------------------
(* What the claims speak of, stated from the inputs of the run.            *)

\* an evaluator call has ended, by a return or by a fault
Called == call.returned \/ call.fault # ""

\* the call returned an array
Returned == pc = "evaluated" /\ call.returned

\* the caller asked for zero-on-nodata for this symbol
Flagged(symbol) ==
    ~zero_nodata_symbols.isnone /\ symbol \in zero_nodata_symbols.val

\* the slot (1-based) of a symbol: its place in raster_id_list
SlotOf(symbol) == CHOOSE k \in 1..Len(raster_id_list) : raster_id_list[k] = symbol

\* the array of symbol holds the symbol's nodata value at pixel p
HoldsNodata(symbol, p) ==
    /\ ~data_dir.nodata[symbol].isnone
    /\ tile_before[SlotOf(symbol)][p] = data_dir.nodata[symbol].val

\* pixel p is excluded: a slot that is not zero-on-nodata holds its nodata
Excluded(p) ==
    \E k \in 1..Len(raster_id_list) :
        ~Flagged(raster_id_list[k]) /\ HoldsNodata(raster_id_list[k], p)

\* the value the expression reads for symbol at pixel p
PixelValue(symbol, p) ==
    IF Flagged(symbol) /\ HoldsNodata(symbol, p) THEN 0
    ELSE tile_before[SlotOf(symbol)][p]

\* name^k, or name: the pixel value of the name raised to k
FactorValue(factor, p) ==
    LET renamed == SubstituteBase(factor, base_convolution_raster_id,
                                  target_raster_id).str
        parts == Split(renamed, "^")
    IN  IF Len(parts) = 1 THEN PixelValue(parts[1], p)
        ELSE Pow(PixelValue(parts[1], p), IntOf(parts[2]))

RECURSIVE ProductValue(_, _)
ProductValue(factors, p) ==
    IF Len(factors) = 0 THEN 1
    ELSE FactorValue(factors[1], p) * ProductValue(Tail(factors), p)

\* what one row contributes at pixel p
RowValue(row, p) ==
    IF row.header = INTERCEPT_COLUMN_ID THEN row.coefficient
    ELSE row.coefficient * ProductValue(Split(row.header, "*"), p)

\* the sum over the first n rows, in row order
RECURSIVE RowSum(_, _)
RowSum(n, p) ==
    IF n = 0 THEN 0 ELSE RowSum(n - 1, p) + RowValue(lasso_df[n], p)

\* the regression at pixel p, the conversion factor applied to the sum
Regression(p) ==
    (IF conversion_factor.isnone THEN 1 ELSE conversion_factor.val)
        * RowSum(Len(lasso_df), p)

Pixels == 1..TilePixels

---------------------------------------------------------------------------
(* C1: at every valid pixel the array the evaluator returns for a compiled *)
(* table holds conversion_factor times the sum, in row order, of           *)
(* coefficient times the product of the row's factors; the intercept row   *)
(* gives its constant, None counts as 1, the factor is applied once.       *)
C1_RegressionAtValidPixels ==
    Returned =>
        \A p \in Pixels : ~Excluded(p) => call.result[p] = Regression(p)

\* an intercept, a product with a power and a conversion factor:
\* 10 * (3 + 1 * 2 * 2^2) = 110
C1_Witness ==
    /\ Returned
    /\ lasso_df = <<Row(INTERCEPT_COLUMN_ID, 3),
                    Row(<<"a", "*", "c", "x", "^", "2">>, 1)>>
    /\ conversion_factor = Some(10)
    /\ ~Excluded(1)
    /\ call.result[1] = 110

(* C2: a pixel at which a slot that is not zero-on-nodata and has a nodata *)
(* value holds that value is target_nodata in the output; every other      *)
(* pixel holds the expression's value, whatever a slot without nodata      *)
(* value holds there; the output has the shape of the input arrays.        *)
C2_ValidityMask ==
    Returned =>
        /\ DOMAIN call.result = DOMAIN tile_before[1]
        /\ \A p \in Pixels :
              call.result[p] = IF Excluded(p) THEN target_nodata
                               ELSE Regression(p)

\* one pixel excluded by "a", the other kept although "tx", which has no
\* nodata value, holds -1 there
C2_Witness ==
    /\ Returned
    /\ Len(raster_id_list) = 2
    /\ base_convolution_raster_id = <<"c">>
    /\ ~Flagged(<<"a">>)
    /\ data_dir.nodata[<<"t", "x">>].isnone
    /\ tile_before[SlotOf(<<"a">>)] = <<(-1), 2>>
    /\ tile_before[SlotOf(<<"t", "x">>)] = <<(-1), (-1)>>
    /\ call.result[1] = target_nodata
    /\ call.result[2] # target_nodata

(* C3: a zero-on-nodata slot excludes no pixel, and where its array holds  *)
(* its nodata value the expression is evaluated with 0 in its place.       *)
C3_ZeroOnNodata ==
    Returned =>
        \A k \in 1..Len(raster_id_list) : \A p \in Pixels :
            (/\ Flagged(raster_id_list[k])
             /\ HoldsNodata(raster_id_list[k], p)
             /\ ~Excluded(p))
                => /\ call.result[p] # target_nodata
                   /\ call.result[p] = Regression(p)

\* 2 * a with a = [nodata, 2] and "a" zero-on-nodata gives [0, 4]
C3_Witness ==
    /\ Returned
    /\ lasso_df = <<Row(<<"a">>, 2)>>
    /\ Flagged(<<"a">>)
    /\ conversion_factor.isnone
    /\ tile_before = <<<<(-1), 2>>>>
    /\ call.result = <<0, 4>>

(* C4: a call whose stream leaves more than one value, or none, on the     *)
(* operand stack ends in a fault and returns no array.                     *)
C4_StackImbalanceIsFatal ==
    /\ (Called /\ call.left # -1 /\ call.left # 1)
           => (call.fault # "" /\ ~call.returned /\ call.result = <<>>)
    /\ call.returned => call.left = 1

\* the stream 2 a: a trailing symbol that no operator consumes
C4_Witness ==
    /\ rpn_stack = <<Num(2), Str(<<"a">>)>>
    /\ pc = "fault"
    /\ call.left = 2
    /\ call.fault = "RuntimeError"

\* the symbols of the stream that have no raster file in data_dir
Unresolved == SymbolSet(rpn_stack) \ data_dir.rasters

(* C5: with symbols that have no raster file the run ends with one report  *)
(* that lists the path of every one of them, before any alignment task is  *)
(* added and before the evaluator is called.                               *)
C5_MissingRastersAbort ==
    /\ (pc \notin {"start", "parsed", "discovered"} /\ Unresolved # {})
           => pc = "exit"
    /\ pc = "exit"
           => /\ Len(error_log) = 1
              /\ {error_log[1][i] : i \in 1..Len(error_log[1])}
                     = {RasterPath(data_dir, id) : id \in Unresolved}
              /\ Len(error_log[1]) = Cardinality(Unresolved)
              /\ task_graph = <<>>
              /\ ~Called /\ n_calls = 0

\* two symbols without a file, both in the one report
C5_Witness ==
    /\ pc = "exit"
    /\ Cardinality(Unresolved) = 2
    /\ Len(error_log) = 1
    /\ Len(error_log[1]) = 2

\* the str tokens of a stream that are no operator, in first-seen order,
\* each once
RECURSIVE FirstSeen(_, _)
FirstSeen(stack, n) ==
    IF n = 0 THEN <<>>
    ELSE LET before == FirstSeen(stack, n - 1)
             token == stack[n]
         IN  IF /\ token.isstr
                /\ ~IsOperator(token)
                /\ \A i \in 1..Len(before) : before[i] # token.str
             THEN Append(before, token.str)
             ELSE before

(* C6, as claimed: the list of distinct symbols is in first-seen order of  *)
(* the Symbol tokens, without duplicates, and a symbol's slot index is its *)
(* position in that order.                                                 *)
C6_FirstSeenOrder ==
    pc \notin {"start", "parsed"}
        => raster_id_list = FirstSeen(rpn_stack, Len(rpn_stack))

(* C6, amended: the list holds every Symbol token of the stream once, in   *)
(* some order, and a symbol's slot index is its position in the list: in   *)
(* the symbol table and in the list of arrays given to the evaluator.      *)
C6_SlotIsListPosition ==
    pc \notin {"start", "parsed"}
        => /\ {raster_id_list[k] : k \in 1..Len(raster_id_list)}
                  = {FirstSeen(rpn_stack, Len(rpn_stack))[k] :
                        k \in 1..Len(FirstSeen(rpn_stack, Len(rpn_stack)))}
           /\ \A j, k \in 1..Len(raster_id_list) :
                  j # k => raster_id_list[j] # raster_id_list[k]
           /\ \A i \in 1..Len(raster_id_to_info_map) :
                  raster_id_list[raster_id_to_info_map[i].index + 1]
                      = raster_id_to_info_map[i].id
           /\ \A k \in 1..Len(raster_path_band_list) :
                  /\ raster_path_band_list[k].id = raster_id_list[k]
                  /\ raster_path_band_list[k].index_matches

\* a list that is not in first-seen order, with its slots assigned
C6_Witness ==
    /\ pc = "aligned"
    /\ Len(raster_id_list) = 2
    /\ raster_id_list # FirstSeen(rpn_stack, Len(rpn_stack))
    /\ raster_id_to_info_map[2].index = 1

\* the symbol the claim expects for a factor
ExpectedSymbol(base, target, factor) ==
    IF StartsWith(factor, base)
    THEN target \o SubSeq(factor, Len(base) + 1, Len(factor))
    ELSE factor

(* C7: the symbol emitted for a factor that starts with the base name is   *)
(* the target name followed by the rest of the factor; for any other       *)
(* factor it is the factor itself.                                         *)
C7_PrefixReplaced ==
    (pc # "start" /\ Len(lasso_df) = 1)
        => /\ pc # "fault"
           /\ rpn_stack[2] = Str(ExpectedSymbol(base_convolution_raster_id,
                                                target_raster_id,
                                                lasso_df[1].header))

\* the caller's plan as it was given to the call
Plan ==
    [rpn_stack |-> rpn_stack, info_dict |-> raster_id_to_info_map,
     zero_nodata_indexes |-> zero_nodata_indexes]

(* C8, as claimed: a call changes none of its inputs, neither the plan nor *)
(* any tile array.                                                         *)
C8_InputsUnchanged ==
    Called => (plan_after = Plan /\ tile_after = tile_before)

(* C8, amended: a call changes nothing of the plan and no array of a slot  *)
(* that is not zero-on-nodata; in the array of a zero-on-nodata slot it    *)
(* changes only pixels that held the nodata value, to 0, and when the call *)
(* returns every such pixel is 0.                                          *)
C8_OnlyZeroSlotsWritten ==
    Called =>
        /\ plan_after = Plan
        /\ DOMAIN tile_after = DOMAIN tile_before
        /\ \A k \in 1..Len(tile_before) : \A p \in Pixels :
              LET symbol == raster_id_list[k]
                  written == Flagged(symbol) /\ HoldsNodata(symbol, p)
              IN  /\ ~written => tile_after[k][p] = tile_before[k][p]
                  /\ written => tile_after[k][p] \in {0, tile_before[k][p]}
                  /\ (written /\ call.returned) => tile_after[k][p] = 0

\* a returned call that wrote the caller's array
C8_Witness ==
    /\ Returned
    /\ Flagged(<<"a">>)
    /\ Len(raster_id_list) = 2
    /\ base_convolution_raster_id = <<"c">>
    /\ tile_before[SlotOf(<<"a">>)] = <<(-1), 2>>
    /\ tile_after[SlotOf(<<"a">>)] = <<0, 2>>
    /\ tile_after[SlotOf(<<"t", "x">>)] = tile_before[SlotOf(<<"t", "x">>)]

\* the number of tokens a row gives the stream, its '+' not counted
RowLength(row) ==
    IF row.header = INTERCEPT_COLUMN_ID THEN 1
    ELSE LET factors == Split(row.header, "*")
             FactorLength(f) == IF Find(f, "^", 1) # 0 THEN 4 ELSE 2
             Total[n \in 0..Len(factors)] ==
                 IF n = 0 THEN 0 ELSE Total[n - 1] + FactorLength(factors[n])
         IN  1 + Total[Len(factors)]

\* where the tokens of row n end in the stream: every row after the first
\* is followed by one '+'
RECURSIVE TermEnd(_)
TermEnd(n) ==
    IF n = 0 THEN 0
    ELSE TermEnd(n - 1) + RowLength(lasso_df[n]) + (IF n = 1 THEN 0 ELSE 1)

\* the stack machine on the stream, every symbol read as a one-pixel array
StackRun ==
    ProcessRpn(rpn_stack, 1, <<>>,
               [k \in 1..Len(raster_id_list) |-> <<1>>],
               [k \in 1..Len(raster_id_list) |-> None],
               [k \in 1..Len(raster_id_list) |->
                   [id |-> raster_id_list[k], index |-> k - 1]],
               {}, <<TRUE>>)

(* C9: the stream of a table with at least one row is well-formed postfix: *)
(* no '+' follows the first term, one '+' follows every later term, and    *)
(* the stack machine never finds an operator short of operands and ends    *)
(* with one value on the stack.                                            *)
C9_WellFormedPostfix ==
    pc = "discovered" =>
        /\ Len(rpn_stack) = TermEnd(Len(lasso_df))
        /\ \A i \in 1..Len(rpn_stack) :
              (rpn_stack[i] = Str(<<"+">>))
                  <=> (\E n \in 2..Len(lasso_df) : i = TermEnd(n))
        /\ StackRun.fault = ""
        /\ Len(StackRun.acc) = 1

\* a table whose intercept is in a later row
C9_Witness ==
    /\ pc = "discovered"
    /\ Len(lasso_df) = 2
    /\ lasso_df[1].header # INTERCEPT_COLUMN_ID
    /\ lasso_df[2].header = INTERCEPT_COLUMN_ID
    /\ rpn_stack[Len(rpn_stack)] = Str(<<"+">>)
    /\ Len(StackRun.acc) = 1

(* C10: called without zero_nodata_symbols, mult_by_columns builds an      *)
(* empty set of zero-on-nodata slot indices and goes on to the evaluation. *)
C10_DefaultIsEmptySet ==
    (zero_nodata_symbols.isnone /\ Unresolved = {}
        /\ pc \notin {"start", "parsed", "discovered", "resolved", "aligned"})
        => (pc # "fault" /\ zero_nodata_indexes = {})

===========================================================================
